---- MODULE Spec2Model ----
(***************************************************************************)
(* Subtitle Creator & Burner: the subtitle pipeline of core/processor.py   *)
(* (create_subtitles, burn_subtitles, modify_subtitle_file,                *)
(* translate_subtitles, download_model), utils/translator.py and the       *)
(* worker / signal plumbing of gui/main_window.py.                         *)
(*                                                                         *)
(* A path is a sequence of name tokens, the last one being the extension   *)
(* when it starts with a dot: "v.srt.bak" is <<"v", ".srt", ".bak">>.      *)
(* A text file is the sequence of its newline-terminated lines.            *)
(* The file system is a function from the existing paths to their content. *)
(***************************************************************************)
EXTENDS Integers, Sequences, FiniteSets, TLC

VARIABLES
    fs,               \* file system: existing path -> content (lines)
    current_model,    \* SubtitleProcessor.current_model
    cache,            \* model names whose weights are in cache_dir
    process_button,   \* SubtitleGUI.process_button.isEnabled()
    download_button,  \* SubtitleGUI.download_button.isEnabled()
    progress_bar,     \* SubtitleGUI.progress_bar.value()
    model_combo,      \* model name selected in SubtitleGUI.model_combo
    srt_path,         \* text of SubtitleGUI.srt_path
    uppercase_option, \* SubtitleGUI.uppercase_option.isChecked()
    word_by_word_option, \* SubtitleGUI.word_by_word_option.isChecked()
    pc,               \* per worker: position in its function
    loc,              \* per worker: the locals of the running function
    sigq,             \* queued signal emissions, in emission order
    trace,            \* per worker: the work items done, in order (history)
    sent,             \* per worker: error / success signals emitted (history)
    started,          \* workers started so far (history)
    call,             \* a function called on its own: its name and arguments
    ret               \* what that call returned

vars == <<fs, current_model, cache, process_button, download_button,
          progress_bar, model_combo, srt_path, uppercase_option,
          word_by_word_option, pc, loc, sigq, trace, sent, started,
          call, ret>>

gui == <<process_button, download_button, progress_bar, model_combo,
         srt_path, uppercase_option, word_by_word_option>>

-----------------------------------------------------------------------------
(* Bounds of the model *)

\* workers that can run at the same time (threads of the QThreadPool)
MaxWorkers == 2
\* signal emissions that can wait in the GUI thread's event queue
MaxQueue == 2
\* segments in a transcription result
MaxSegs == 1
\* workers started in one behaviour
MaxRuns == 2
\* tokens of the longest subtitle path the user works with
MaxPathLen == 3

Workers == 1..MaxWorkers

-----------------------------------------------------------------------------
(* Paths *)

Exts == {".mp4", ".srt", ".wav", ".bak"}

\* os.path.splitext(p)[0]
SplitextRoot(p) ==
    IF Len(p) > 1 /\ p[Len(p)] \in Exts THEN SubSeq(p, 1, Len(p) - 1) ELSE p

VideoPath == <<"v", ".mp4">>

\* str(Path(filename).with_suffix('.srt')), and a file picked with Browse
DefaultSrtPath == SplitextRoot(VideoPath) \o <<".srt">>

\* extract_audio: os.path.splitext(video_path)[0] + "_temp.wav"
AudioPath(video) == SplitextRoot(video) \o <<"_temp", ".wav">>

\* create_subtitles: srt_path + '.bak'
BackupPath(srt) == srt \o <<".bak">>

\* the source path itself as the output path
ModifiedPathInPlace(srt) == srt

\* modify_subtitle_file: os.path.splitext(input_srt)[0] + "_modified.srt"
ModifiedPath(srt) == SplitextRoot(srt) \o <<"_modified", ".srt">>

\* burn_subtitles: os.path.splitext(input_video)[0] + "_subbed.mp4"
OutputVideoPath(video) == SplitextRoot(video) \o <<"_subbed", ".mp4">>

\* the input path itself as the output path
TranslatedPathInPlace(srt, lang) == srt

\* translate_subtitles: os.path.splitext(input_srt)[0] + f"_{to_lang}.srt"
TranslatedPath(srt, lang) == SplitextRoot(srt) \o <<"_" \o lang, ".srt">>

-----------------------------------------------------------------------------
(* File system *)

Exists(f, p) == p \in DOMAIN f

\* open(p, 'w') ... write(c): creates or replaces p
WriteFile(f, p, c) ==
    [q \in DOMAIN f \cup {p} |-> IF q = p THEN c ELSE f[q]]

\* a removal that is left out
OsRemoveNothing(f, p) == f

\* os.remove(p), p existing
OsRemove(f, p) == [q \in DOMAIN f \ {p} |-> f[q]]

\* a copy that is left out
Copy2Nothing(f, src, dst) == f

\* shutil.copy2(src, dst), src existing
Copy2(f, src, dst) == WriteFile(f, dst, f[src])

-----------------------------------------------------------------------------
(* Text: a line is a sequence of tokens (words, " " for a run of white     *)
(* space, digit strings, "-->"); the empty line is << >>.                   *)

IsSpace(tok) == tok = " "

RECURSIVE LStrip(_)
LStrip(line) ==
    IF line # << >> /\ IsSpace(Head(line)) THEN LStrip(Tail(line)) ELSE line

RECURSIVE RStrip(_)
RStrip(line) ==
    IF line # << >> /\ IsSpace(line[Len(line)])
    THEN RStrip(SubSeq(line, 1, Len(line) - 1))
    ELSE line

\* str.strip() on one line
Strip(line) == RStrip(LStrip(line))

Pad2(n) == IF n < 10 THEN "0" \o ToString(n) ELSE ToString(n)
Pad3(n) == IF n < 10 THEN "00" \o ToString(n)
           ELSE IF n < 100 THEN "0" \o ToString(n) ELSE ToString(n)

\* format_timestamp, for a duration of ms milliseconds: timedelta.seconds is
\* the seconds within the day, timedelta.microseconds // 1000 the milliseconds
format_timestamp(ms) ==
    LET td_seconds   == (ms \div 1000) % 86400
        hours        == td_seconds \div 3600
        minutes      == (td_seconds \div 60) % 60
        seconds      == td_seconds % 60
        milliseconds == ms % 1000
    IN  Pad2(hours) \o ":" \o Pad2(minutes) \o ":" \o Pad2(seconds)
            \o "," \o Pad3(milliseconds)

\* a transcription: its first MaxSegs segments are what the engine returns
Speech ==
    << [start |-> 0,    end |-> 1500, text |-> <<" ", "Hello">>],
       [start |-> 1500, end |-> 3000, text |-> <<" ", "big", " ", "world">>],
       [start |-> 3000, end |-> 3725400, text |-> <<"bye", " ">>] >>

Min(a, b) == IF a <= b THEN a ELSE b

\* the results transcribe can return: from no segment to MaxSegs segments
SegmentLists == { SubSeq(Speech, 1, n) : n \in 0..Min(MaxSegs, Len(Speech)) }

\* the blocks numbered from 0, as enumerate() without its start
RECURSIVE SrtContentFromZero(_, _)
SrtContentFromZero(segments, i) ==
    IF i > Len(segments) THEN << >>
    ELSE LET seg == segments[i]
             block == << <<ToString(i - 1)>>,
                         <<format_timestamp(seg.start), " ", "-->", " ",
                           format_timestamp(seg.end)>>,
                         Strip(seg.text) >>
         IN  block
             \o (IF i < Len(segments) THEN << << >> >> ELSE << >>)
             \o SrtContentFromZero(segments, i + 1)

\* create_subtitles, lines 164-176: the lines of "\n".join(srt_content)
RECURSIVE SrtContentFrom(_, _)
SrtContentFrom(segments, i) ==
    IF i > Len(segments) THEN << >>
    ELSE LET seg == segments[i]
             block == << <<ToString(i)>>,
                         <<format_timestamp(seg.start), " ", "-->", " ",
                           format_timestamp(seg.end)>>,
                         Strip(seg.text) >>
         IN  block
             \o (IF i < Len(segments) THEN << << >> >> ELSE << >>)
             \o SrtContentFrom(segments, i + 1)

SrtContent(segments) == SrtContentFrom(segments, 1)

\* str.upper() of a token
Upper(tok) ==
    CASE tok = "Hello" -> "HELLO"
      [] tok = "big"   -> "BIG"
      [] tok = "bye"   -> "BYE"
      [] tok = "world" -> "WORLD"
      [] tok = "old"   -> "OLD"
      [] OTHER         -> tok

\* ' '.join(text.split())
RECURSIVE JoinWords(_)
JoinWords(line) ==
    LET words == SelectSeq(line, LAMBDA t : ~IsSpace(t))
    IN  IF Len(words) <= 1 THEN words
        ELSE <<Head(words), " ">> \o JoinWords(Tail(words))

IsDigits(line) ==
    /\ line # << >>
    /\ \A k \in 1..Len(line) : line[k] \in { ToString(n) : n \in 0..9 }

\* modify_subtitle_file, line 298: is this a subtitle text line
IsTextLine(line) ==
    /\ \A k \in 1..Len(line) : line[k] # "-->"
    /\ ~IsDigits(Strip(line))
    /\ Strip(line) # << >>

\* modify_subtitle_file, lines 296-312: one line of the output
ModifyLine(line, uppercase, word_by_word) ==
    IF IsTextLine(line)
    THEN LET text == Strip(line)
             up   == IF uppercase THEN [k \in 1..Len(text) |-> Upper(text[k])]
                     ELSE text
         IN  IF word_by_word THEN JoinWords(up) ELSE up
    ELSE line

ModifyContent(content, uppercase, word_by_word) ==
    [k \in 1..Len(content) |-> ModifyLine(content[k], uppercase, word_by_word)]

\* modify_subtitle_file, lines 291-314, input_srt existing: the file system
\* after the call and the path returned
modify_subtitle_file(f, input_srt, uppercase, word_by_word) ==
    LET output_srt == ModifiedPath(input_srt)
    IN  [fs   |-> WriteFile(f, output_srt,
                     ModifyContent(f[input_srt], uppercase, word_by_word)),
         path |-> output_srt]

-----------------------------------------------------------------------------
(* Processor and worker state *)

Models == {"tiny", "base"}

\* load_settings: 'whisper_model': "base"
DefaultModel == "base"

\* self.current_model = None; Deleted: the attribute after `del`
None == "None"
Deleted == "deleted"

NoPath == << >>

\* no subtitle file was copied to its .bak sibling
NoBackup == << <<"no backup">> >>

NoLoc ==
    [kind |-> "none", video |-> NoPath, srt |-> NoPath, model |-> None,
     audio_path |-> NoPath, modified_srt_path |-> NoPath,
     output |-> NoPath, handle |-> None, segments |-> << >>,
     backup |-> NoBackup, failed |-> "none", prior |-> NoBackup]

NoSent == [error |-> 0, success |-> 0]

\* no function is called on its own, and nothing was returned
NoCall ==
    [fn |-> "none", ms |-> 0, path |-> NoPath, content |-> << >>,
     segments |-> << >>, uppercase |-> FALSE, word_by_word |-> FALSE,
     lang |-> "", fails |-> 0, existing |-> FALSE,
     font_color |-> "", font_outline |-> "", background_color |-> "",
     subtitle_position |-> ""]
NoRet ==
    [done |-> FALSE, raised |-> FALSE, text |-> "", path |-> NoPath,
     style |-> << >>]

Signal(w, sig, val, path) == [w |-> w, sig |-> sig, val |-> val, path |-> path]
Progress(w, val) == Signal(w, "progress", val, NoPath)
ErrorSig(w)      == Signal(w, "error", 0, NoPath)
SuccessSig(w, p) == Signal(w, "success", 0, p)
FinishedSig(w)   == Signal(w, "finished", 0, NoPath)

Room(n) == Len(sigq) + n <= MaxQueue

CountSig(sigs, sig) == Cardinality({k \in 1..Len(sigs) : sigs[k].sig = sig})

\* worker w emits sigs (signal.emit from a worker thread: queued, in order)
Emit(w, sigs) ==
    /\ Room(Len(sigs))
    /\ sigq' = sigq \o sigs
    /\ sent' = [sent EXCEPT ![w] =
                   [error   |-> @.error + CountSig(sigs, "error"),
                    success |-> @.success + CountSig(sigs, "success")]]

\* worker w does (or attempts) the work item op on path
Did(w, op, path) ==
    trace' = [trace EXCEPT ![w] = Append(@, [op |-> op, path |-> path])]

\* the except handler of the function worker w runs
ExceptPc(kind) ==
    CASE kind = "process"   -> "p_except"
      [] kind = "burn"      -> "b_except"
      [] kind = "translate" -> "t_except"
      [] kind = "download"  -> "d_except"

\* an exception raised in stage `stage` propagates to the worker's function
Raise(w, stage) ==
    /\ pc' = [pc EXCEPT ![w] = ExceptPc(loc[w].kind)]
    /\ loc' = [loc EXCEPT ![w].failed = stage]

Goto(w, next) == pc' = [pc EXCEPT ![w] = next]

\* subtitle_progress / burn_progress of do_process, the lambda of do_burn
SubtitleProgress(value) == value \div 2
BurnProgress(kind, value) ==
    IF kind = "process" THEN 50 + (value \div 2) ELSE value

-----------------------------------------------------------------------------
(* SubtitleProcessor.create_subtitles *)

\* the temp audio file removed before the subtitle file is written
CsNextRemoveFirst(at) ==
    CASE at = "cs_load"         -> "cs_backup"
      [] at = "cs_backup"       -> "cs_extract"
      [] at = "cs_extract"      -> "cs_transcribe"
      [] at = "cs_transcribe"   -> "cs_transcribing"
      [] at = "cs_transcribing" -> "cs_remove"
      [] at = "cs_remove"       -> "cs_write"
      [] at = "cs_write"        -> "p_burn"

\* create_subtitles, lines 130-184: the statement after each one
CsNext(at) ==
    CASE at = "cs_load"         -> "cs_backup"
      [] at = "cs_backup"       -> "cs_extract"
      [] at = "cs_extract"      -> "cs_transcribe"
      [] at = "cs_transcribe"   -> "cs_transcribing"
      [] at = "cs_transcribing" -> "cs_write"
      [] at = "cs_write"        -> "cs_remove"
      [] at = "cs_remove"       -> "p_burn"

\* line 134: if not self.current_model
NeedsLoad(cur, model_name) == cur = None

\* lines 131-135: "Loading model...", load the engine handle if none is cached
CsLoad(w) ==
    /\ pc[w] = "cs_load"
    /\ Emit(w, <<Progress(w, SubtitleProgress(10))>>)
    /\ IF current_model = Deleted
       THEN \* AttributeError on self.current_model
            /\ Did(w, "load_model", NoPath)
            /\ Raise(w, "load_model")
            /\ UNCHANGED <<current_model, cache>>
       ELSE IF NeedsLoad(current_model, loc[w].model)
       THEN /\ Did(w, "load_model", NoPath)
            /\ \/ /\ current_model' = loc[w].model
                  /\ cache' = cache \cup {loc[w].model}
                  /\ Goto(w, CsNext("cs_load"))
                  /\ UNCHANGED loc
               \/ /\ Raise(w, "load_model")
                  /\ UNCHANGED <<current_model, cache>>
       ELSE /\ Goto(w, CsNext("cs_load"))
            /\ UNCHANGED <<current_model, cache, loc, trace>>
    /\ UNCHANGED <<fs, gui, started>>

\* lines 137-140: copy an existing subtitle file to its .bak sibling
CsBackup(w) ==
    /\ pc[w] = "cs_backup"
    /\ IF Exists(fs, loc[w].srt)
       THEN /\ Did(w, "backup", BackupPath(loc[w].srt))
            /\ \/ /\ fs' = Copy2(fs, loc[w].srt, BackupPath(loc[w].srt))
                  /\ loc' = [loc EXCEPT ![w].backup = fs[loc[w].srt]]
                  /\ Goto(w, CsNext("cs_backup"))
               \/ /\ Raise(w, "backup")
                  /\ UNCHANGED fs
       ELSE /\ Goto(w, CsNext("cs_backup"))
            /\ UNCHANGED <<fs, loc, trace>>
    /\ UNCHANGED <<current_model, cache, gui, started, sigq, sent>>

AudioContent == << <<"pcm_s16le">> >>
PartialContent == << <<"partial">> >>

\* lines 142-146 and extract_audio: ffmpeg -i video ... audio_path -y
CsExtract(w) ==
    /\ pc[w] = "cs_extract"
    /\ Emit(w, <<Progress(w, SubtitleProgress(20))>>)
    /\ Did(w, "extract_audio", AudioPath(loc[w].video))
    /\ LET audio == AudioPath(loc[w].video)
       IN  \/ /\ Exists(fs, loc[w].video)
              /\ fs' = WriteFile(fs, audio, AudioContent)
              /\ loc' = [loc EXCEPT ![w].audio_path = audio]
              /\ Goto(w, CsNext("cs_extract"))
           \/ \* non-zero exit: the output is absent, untouched or partial
              /\ \/ UNCHANGED fs
                 \/ fs' = WriteFile(fs, audio, PartialContent)
              /\ Raise(w, "extract_audio")
    /\ UNCHANGED <<current_model, cache, gui, started>>

\* lines 148-158: self.current_model.transcribe(audio_path, **options) is called
CsTranscribe(w) ==
    /\ pc[w] = "cs_transcribe"
    /\ Emit(w, <<Progress(w, SubtitleProgress(40))>>)
    /\ Did(w, "transcribe", loc[w].audio_path)
    /\ IF current_model = Deleted
       THEN Raise(w, "transcribe")
       ELSE /\ loc' = [loc EXCEPT ![w].handle = current_model]
            /\ Goto(w, CsNext("cs_transcribe"))
    /\ UNCHANGED <<fs, current_model, cache, gui, started>>

\* line 158: transcribe returns the segments, or raises
CsTranscribeReturn(w) ==
    /\ pc[w] = "cs_transcribing"
    /\ \/ /\ Exists(fs, loc[w].audio_path)
          /\ \E segs \in SegmentLists :
                loc' = [loc EXCEPT ![w].segments = segs]
          /\ Goto(w, CsNext("cs_transcribing"))
       \/ Raise(w, "transcribe")
    /\ UNCHANGED <<fs, current_model, cache, gui, started, sigq, trace, sent>>

\* lines 160-176: "Creating SRT file...", build and write the document
CsWrite(w) ==
    /\ pc[w] = "cs_write"
    /\ Emit(w, <<Progress(w, SubtitleProgress(80))>>)
    /\ Did(w, "write_srt", loc[w].srt)
    /\ \/ /\ fs' = WriteFile(fs, loc[w].srt, SrtContent(loc[w].segments))
          /\ Goto(w, CsNext("cs_write"))
          /\ UNCHANGED loc
       \/ \* open() fails: nothing written
          /\ UNCHANGED fs
          /\ Raise(w, "write_srt")
       \/ \* write() fails after open() truncated the file
          /\ fs' = WriteFile(fs, loc[w].srt, << >>)
          /\ Raise(w, "write_srt")
    /\ UNCHANGED <<current_model, cache, gui, started>>

\* lines 178-184: os.remove(audio_path), "Subtitles created successfully!"
CsRemove(w) ==
    /\ pc[w] = "cs_remove"
    /\ Did(w, "remove_audio", loc[w].audio_path)
    /\ IF Exists(fs, loc[w].audio_path)
       THEN /\ fs' = OsRemove(fs, loc[w].audio_path)
            /\ Emit(w, <<Progress(w, SubtitleProgress(100))>>)
            /\ Goto(w, CsNext("cs_remove"))
            /\ UNCHANGED loc
       ELSE \* FileNotFoundError
            /\ Raise(w, "remove_audio")
            /\ UNCHANGED <<fs, sigq, sent>>
    /\ UNCHANGED <<current_model, cache, gui, started>>

create_subtitles(w) ==
    \/ CsLoad(w)
    \/ CsBackup(w)
    \/ CsExtract(w)
    \/ CsTranscribe(w)
    \/ CsTranscribeReturn(w)
    \/ CsWrite(w)
    \/ CsRemove(w)

-----------------------------------------------------------------------------
(* The style string of burn_subtitles: its components, to be joined by "," *)

\* the name as it is, letter case kept
LowerKeepsCase(name) == name

\* str.lower() of a colour name
Lower(name) ==
    CASE name = "None"   -> "none"
      [] name = "Black"  -> "black"
      [] name = "GRAY"   -> "gray"
      [] name = "White"  -> "white"
      [] name = "YELLOW" -> "yellow"
      [] name = "Green"  -> "green"
      [] name = "cYaN"   -> "cyan"
      [] name = "Mauve"  -> "mauve"
      [] OTHER           -> name

\* convert_color_to_hex: color_map.get(color_name.lower(), '&HFFFFFF&')
convert_color_to_hex(color_name) ==
    LET c == Lower(color_name)
    IN  CASE c = "white"  -> "&HFFFFFF&"
          [] c = "yellow" -> "&H00FFFF&"
          [] c = "black"  -> "&H000000&"
          [] c = "green"  -> "&H00FF00&"
          [] c = "cyan"   -> "&HFFFF00&"
          [] c = "gray"   -> "&H808080&"
          [] c = "none"   -> ""
          [] OTHER        -> "&HFFFFFF&"

\* every position that names the top
get_alignment_any_top(position) ==
    IF position \in {"top center", "top", "Top Center"} THEN "8" ELSE "2"

\* _get_alignment: alignment_map.get(position, "2")
get_alignment(position) ==
    CASE position = "top center" -> "8"
      [] position = "bottom"     -> "2"
      [] OTHER                   -> "2"

\* the test on the lower-cased name
IsNoBackgroundAnyCase(background_color) == Lower(background_color) = "none"

\* line 230: if background_color == "none"
IsNoBackground(background_color) == background_color = "none"

\* one component f"{key}={value}"
KeyValue(key, value) == [key |-> key, value |-> value]

\* burn_subtitles, lines 212-244: style_components
CompileStyle(font_size, font_name, font_color, font_outline, margin_left, background_color, subtitle_position) ==
    << KeyValue("FontSize", font_size),
       KeyValue("FontName", font_name),
       KeyValue("PrimaryColour", convert_color_to_hex(font_color)),
       KeyValue("OutlineColour", convert_color_to_hex(font_outline)),
       KeyValue("MarginL", margin_left),
       KeyValue("MarginR", "50"),
       KeyValue("MarginV", "20"),
       KeyValue("Outline", "1"),
       KeyValue("Shadow", "1"),
       KeyValue("Alignment", get_alignment(subtitle_position)) >>
    \o (IF IsNoBackground(background_color)
        THEN << KeyValue("BorderStyle", "1"),
                KeyValue("Outline", "1") >>
        ELSE << KeyValue("BackColour", convert_color_to_hex(background_color)),
                KeyValue("BorderStyle", "3"),
                KeyValue("Outline", "1") >>)

-----------------------------------------------------------------------------
(* SubtitleProcessor.burn_subtitles *)

\* lines 199-203: "Preparing burning process...", the default output path.
\* do_process emits "Preparing for subtitle burning..." (50) right before.
BsPrepare(w) ==
    /\ pc[w] \in {"p_burn", "bs_prepare"}
    /\ Emit(w, (IF pc[w] = "p_burn" THEN <<Progress(w, 50)>> ELSE << >>)
               \o <<Progress(w, BurnProgress(loc[w].kind, 10))>>)
    /\ loc' = [loc EXCEPT ![w].output = OutputVideoPath(loc[w].video)]
    /\ Goto(w, "bs_modify")
    /\ UNCHANGED <<fs, current_model, cache, gui, started, trace>>

\* line 206: if uppercase or word_by_word
NeedsModify(uppercase, word_by_word) == uppercase \/ word_by_word

\* lines 205-209 and modify_subtitle_file
BsModify(w) ==
    /\ pc[w] = "bs_modify"
    /\ IF NeedsModify(uppercase_option, word_by_word_option)
       THEN /\ Did(w, "modify", ModifiedPath(loc[w].srt))
            /\ LET out == ModifiedPath(loc[w].srt)
               IN  \/ /\ Exists(fs, loc[w].srt)
                      /\ LET r == modify_subtitle_file(fs, loc[w].srt,
                                      uppercase_option, word_by_word_option)
                         IN  /\ fs' = r.fs
                             /\ loc' = [loc EXCEPT
                                           ![w].modified_srt_path = r.path]
                      /\ Goto(w, "bs_style")
                   \/ \* the input cannot be opened: no output is created
                      /\ UNCHANGED fs
                      /\ Raise(w, "modify")
                   \/ \* a write fails after the output was opened
                      /\ Exists(fs, loc[w].srt)
                      /\ fs' = WriteFile(fs, out, << >>)
                      /\ Raise(w, "modify")
       ELSE /\ loc' = [loc EXCEPT ![w].modified_srt_path = loc[w].srt]
            /\ Goto(w, "bs_style")
            /\ UNCHANGED <<fs, trace>>
    /\ UNCHANGED <<current_model, cache, gui, started, sigq, sent>>

\* lines 212-244: the style string is built in memory
BsStyle(w) ==
    /\ pc[w] = "bs_style"
    /\ Did(w, "compile_style", NoPath)
    /\ Goto(w, "bs_burn")
    /\ UNCHANGED <<fs, current_model, cache, gui, started, loc, sigq, sent>>

VideoContent(subs) == << <<"subbed">> >>

\* lines 247-272: "Burning subtitles...", ffmpeg -vf subtitles='<modified>'
BsBurn(w) ==
    /\ pc[w] = "bs_burn"
    /\ Emit(w, <<Progress(w, BurnProgress(loc[w].kind, 30))>>)
    /\ Did(w, "burn", loc[w].output)
    /\ \/ /\ Exists(fs, loc[w].video)
          /\ Exists(fs, loc[w].modified_srt_path)
          /\ fs' = WriteFile(fs, loc[w].output,
                             VideoContent(fs[loc[w].modified_srt_path]))
          /\ Goto(w, "bs_cleanup")
          /\ UNCHANGED loc
       \/ \* non-zero exit, or Popen raises: no output, or a partial one
          /\ \/ UNCHANGED fs
             \/ fs' = WriteFile(fs, loc[w].output, PartialContent)
          /\ Raise(w, "burn")
    /\ UNCHANGED <<current_model, cache, gui, started>>

\* the cleanup without its test
RemovesModifiedAlways(modified_srt_path, srt) == TRUE

\* line 275: if modified_srt_path != srt_path
RemovesModified(modified_srt_path, srt) == modified_srt_path # srt

\* what the function worker w runs does after burn_subtitles returned
AfterBurn(kind) == IF kind = "process" THEN "p_done" ELSE "b_done"

\* lines 274-281: remove the modified subtitle file, "Burning completed!"
BsCleanup(w) ==
    /\ pc[w] = "bs_cleanup"
    /\ IF RemovesModified(loc[w].modified_srt_path, loc[w].srt)
       THEN /\ Did(w, "remove_modified", loc[w].modified_srt_path)
            /\ IF Exists(fs, loc[w].modified_srt_path)
               THEN /\ fs' = OsRemove(fs, loc[w].modified_srt_path)
                    /\ Emit(w, <<Progress(w, BurnProgress(loc[w].kind, 100))>>)
                    /\ Goto(w, AfterBurn(loc[w].kind))
                    /\ UNCHANGED loc
               ELSE \* FileNotFoundError
                    /\ Raise(w, "remove_modified")
                    /\ UNCHANGED <<fs, sigq, sent>>
       ELSE /\ Emit(w, <<Progress(w, BurnProgress(loc[w].kind, 100))>>)
            /\ Goto(w, AfterBurn(loc[w].kind))
            /\ UNCHANGED <<fs, loc, trace>>
    /\ UNCHANGED <<current_model, cache, gui, started>>

burn_subtitles(w) ==
    \/ BsPrepare(w)
    \/ BsModify(w)
    \/ BsStyle(w)
    \/ BsBurn(w)
    \/ BsCleanup(w)

-----------------------------------------------------------------------------
(* gui, started/main_window.py: the functions the workers run *)

\* do_process, lines 252-262: the first two progress events
DoProcessBegin(w) ==
    /\ pc[w] = "p_begin"
    /\ Emit(w, <<Progress(w, 0), Progress(w, 5)>>)
    /\ Goto(w, "cs_load")
    /\ UNCHANGED <<fs, current_model, cache, gui, started, loc, trace>>

\* do_process, lines 298-300
DoProcessDone(w) ==
    /\ pc[w] = "p_done"
    /\ Emit(w, <<Progress(w, 100), SuccessSig(w, NoPath)>>)
    /\ Goto(w, "run_end")
    /\ UNCHANGED <<fs, current_model, cache, gui, started, loc, trace>>

\* do_process, lines 302-306
DoProcessExcept(w) ==
    /\ pc[w] = "p_except"
    /\ Emit(w, <<ErrorSig(w), Progress(w, 0)>>)
    /\ Goto(w, "run_end")
    /\ UNCHANGED <<fs, current_model, cache, gui, started, loc, trace>>

\* do_burn, line 178
DoBurnBegin(w) ==
    /\ pc[w] = "b_begin"
    /\ Emit(w, <<Progress(w, 50)>>)
    /\ Goto(w, "bs_prepare")
    /\ UNCHANGED <<fs, current_model, cache, gui, started, loc, trace>>

\* do_burn, line 196
DoBurnDone(w) ==
    /\ pc[w] = "b_done"
    /\ Emit(w, <<SuccessSig(w, NoPath)>>)
    /\ Goto(w, "run_end")
    /\ UNCHANGED <<fs, current_model, cache, gui, started, loc, trace>>

\* do_burn, lines 197-198
DoBurnExcept(w) ==
    /\ pc[w] = "b_except"
    /\ Emit(w, <<ErrorSig(w)>>)
    /\ Goto(w, "run_end")
    /\ UNCHANGED <<fs, current_model, cache, gui, started, loc, trace>>

-----------------------------------------------------------------------------
(* utils/translator.py *)

Langs == {"it"}

IsBlank(line) == Strip(line) = << >>

RECURSIVE DropLeadingBlank(_)
DropLeadingBlank(lines) ==
    IF lines # << >> /\ IsBlank(Head(lines))
    THEN DropLeadingBlank(Tail(lines))
    ELSE lines

RECURSIVE DropTrailingBlank(_)
DropTrailingBlank(lines) ==
    IF lines # << >> /\ IsBlank(lines[Len(lines)])
    THEN DropTrailingBlank(SubSeq(lines, 1, Len(lines) - 1))
    ELSE lines

\* content.strip(): the lines of the stripped text, to be joined by "\n"
\* (the empty text is the one empty line)
StripText(content) ==
    LET kept == DropTrailingBlank(DropLeadingBlank(content))
    IN  IF kept = << >> THEN << << >> >>
        ELSE [k \in 1..Len(kept) |->
                IF k = 1 /\ k = Len(kept) THEN Strip(kept[k])
                ELSE IF k = 1 THEN LStrip(kept[k])
                ELSE IF k = Len(kept) THEN RStrip(kept[k])
                ELSE kept[k]]

\* the first empty line that has a line after it: a "\n\n" in the text
FirstBreak(lines) ==
    LET at == {k \in 2..(Len(lines) - 1) : lines[k] = << >>}
    IN  IF at = {} THEN 0 ELSE CHOOSE k \in at : \A j \in at : k <= j

\* text.split('\n\n'), each block as block.split('\n')
RECURSIVE SplitBlocks(_)
SplitBlocks(lines) ==
    LET k == FirstBreak(lines)
    IN  IF k = 0 THEN <<lines>>
        ELSE <<SubSeq(lines, 1, k - 1)>>
                 \o SplitBlocks(SubSeq(lines, k + 1, Len(lines)))

\* ' '.join(lines[2:])
RECURSIVE JoinLines(_)
JoinLines(lines) ==
    IF lines = << >> THEN << >>
    ELSE IF Len(lines) = 1 THEN Head(lines)
    ELSE Head(lines) \o <<" ">> \o JoinLines(Tail(lines))

\* translator.translate(text): the engine's answer for a text
TranslateText(text, lang) == <<"[" \o lang \o "]">> \o text

\* only the first text line of a block handed to the engine
RECURSIVE TranslateBlocksFirstLine(_, _)
TranslateBlocksFirstLine(blocks, lang) ==
    IF blocks = << >> THEN << >>
    ELSE LET lines == Head(blocks)
             rest  == TranslateBlocksFirstLine(Tail(blocks), lang)
         IN  IF Len(lines) >= 3
             THEN << <<lines[1], lines[2], TranslateText(lines[3], lang)>> >>
                      \o rest
             ELSE rest

\* translate_srt, lines 21-34: the translated blocks
RECURSIVE TranslateBlocks(_, _)
TranslateBlocks(blocks, lang) ==
    IF blocks = << >> THEN << >>
    ELSE LET lines == Head(blocks)
             rest  == TranslateBlocks(Tail(blocks), lang)
         IN  IF Len(lines) >= 3
             THEN << <<lines[1], lines[2],
                       TranslateText(JoinLines(SubSeq(lines, 3, Len(lines))),
                                     lang)>> >> \o rest
             ELSE rest

\* translate_srt, lines 36-38: the lines of '\n'.join(translated_blocks)
RECURSIVE JoinBlocks(_)
JoinBlocks(blocks) ==
    IF blocks = << >> THEN << >>
    ELSE IF Len(blocks) = 1 THEN Head(blocks)
    ELSE Head(blocks) \o << << >> >> \o JoinBlocks(Tail(blocks))

translate_srt(content, lang) ==
    JoinBlocks(TranslateBlocks(SplitBlocks(StripText(content)), lang))

\* the blocks translate_srt hands to the engine: those of three lines or more
Entries(content) ==
    SelectSeq(SplitBlocks(StripText(content)), LAMBDA b : Len(b) >= 3)

\* what was translated before the failing call is written all the same
TranslateOutcomePartial(content, lang, fails) ==
    LET entries == Entries(content)
    IN  IF fails \in 1..Len(entries)
        THEN [raised |-> TRUE, wrote |-> TRUE,
              lines  |-> JoinBlocks(TranslateBlocks(
                             SubSeq(entries, 1, fails - 1), lang))]
        ELSE [raised |-> FALSE, wrote |-> TRUE,
              lines  |-> translate_srt(content, lang)]

\* translate_srt, lines 11-43, when translator.translate raises for entry
\* `fails` (0: for none): the loop is left before the output is opened
TranslateOutcome(content, lang, fails) ==
    LET entries == Entries(content)
    IN  IF fails \in 1..Len(entries)
        THEN [raised |-> TRUE, wrote |-> FALSE, lines |-> << >>]
        ELSE [raised |-> FALSE, wrote |-> TRUE,
              lines  |-> translate_srt(content, lang)]

\* translate_subtitles, lines 337-343, input_srt existing: the file system
\* after the call, whether it raised, and the path it returns
translate_subtitles(f, input_srt, to_lang, fails) ==
    LET output_srt == TranslatedPath(input_srt, to_lang)
        o == TranslateOutcome(f[input_srt], to_lang, fails)
    IN  [fs     |-> IF o.wrote THEN WriteFile(f, output_srt, o.lines) ELSE f,
         raised |-> o.raised,
         path   |-> output_srt]

\* do_translate, lines 127-128
DoTranslateBegin(w) ==
    /\ pc[w] = "t_begin"
    /\ Emit(w, <<Progress(w, 10), Progress(w, 30)>>)
    /\ Goto(w, "t_translate")
    /\ UNCHANGED <<fs, current_model, cache, gui, started, loc, trace>>

\* do_translate, lines 130-137: translate_subtitles and translate_srt
DoTranslate(w) ==
    /\ pc[w] = "t_translate"
    /\ Did(w, "translate", loc[w].srt)
    /\ \E lang \in Langs :
         \/ /\ Exists(fs, loc[w].srt)
            /\ \E fails \in 0..Len(Entries(fs[loc[w].srt])) :
                 LET r == translate_subtitles(fs, loc[w].srt, lang, fails)
                 IN  /\ fs' = r.fs
                     /\ IF r.raised
                        THEN /\ Raise(w, "translate")
                             /\ UNCHANGED <<sigq, sent>>
                        ELSE /\ loc' = [loc EXCEPT ![w].output = r.path]
                             /\ Emit(w, <<Progress(w, 100)>>)
                             /\ Goto(w, "run_end")
         \/ \* the input cannot be read
            /\ Raise(w, "translate")
            /\ UNCHANGED <<fs, sigq, sent>>
    /\ UNCHANGED <<current_model, cache, gui, started>>

\* do_translate, lines 139-141
DoTranslateExcept(w) ==
    /\ pc[w] = "t_except"
    /\ Emit(w, <<ErrorSig(w)>>)
    /\ Goto(w, "run_end")
    /\ UNCHANGED <<fs, current_model, cache, gui, started, loc, trace>>

-----------------------------------------------------------------------------
(* SubtitleProcessor.download_model and do_download *)

\* do_download, lines 92-93
DoDownloadBegin(w) ==
    /\ pc[w] = "d_begin"
    /\ Emit(w, <<Progress(w, 0), Progress(w, 20)>>)
    /\ Goto(w, "dl_check")
    /\ UNCHANGED <<fs, current_model, cache, gui, started, loc, trace>>

\* download_model, lines 105-107: check_disk_space
DlCheck(w) ==
    /\ pc[w] = "dl_check"
    /\ Did(w, "check_disk", NoPath)
    /\ \/ /\ Goto(w, "dl_release")
          /\ UNCHANGED loc
       \/ Raise(w, "check_disk")
    /\ UNCHANGED <<fs, current_model, cache, gui, started, sigq, sent>>

\* download_model, lines 115-118: del self.current_model
DlRelease(w) ==
    /\ pc[w] = "dl_release"
    /\ IF current_model = Deleted
       THEN \* AttributeError on self.current_model
            /\ Did(w, "release_model", NoPath)
            /\ Raise(w, "release_model")
            /\ UNCHANGED current_model
       ELSE IF current_model # None
       THEN /\ Did(w, "release_model", NoPath)
            /\ current_model' = Deleted
            /\ Goto(w, "dl_load")
            /\ UNCHANGED loc
       ELSE /\ Goto(w, "dl_load")
            /\ UNCHANGED <<current_model, loc, trace>>
    /\ UNCHANGED <<fs, cache, gui, started, sigq, sent>>

\* download_model, lines 120-121: self.current_model = whisper.load_model(..)
DlLoad(w) ==
    /\ pc[w] = "dl_load"
    /\ Did(w, "load_model", NoPath)
    /\ \/ /\ current_model' = loc[w].model
          /\ cache' = cache \cup {loc[w].model}
          /\ Goto(w, "d_done")
          /\ UNCHANGED loc
       \/ /\ Raise(w, "load_model")
          /\ UNCHANGED <<current_model, cache>>
    /\ UNCHANGED <<fs, gui, started, sigq, sent>>

\* do_download, lines 95-96
DoDownloadDone(w) ==
    /\ pc[w] = "d_done"
    /\ Emit(w, <<Progress(w, 100), SuccessSig(w, NoPath)>>)
    /\ Goto(w, "run_end")
    /\ UNCHANGED <<fs, current_model, cache, gui, started, loc, trace>>

\* do_download, lines 97-98
DoDownloadExcept(w) ==
    /\ pc[w] = "d_except"
    /\ Emit(w, <<ErrorSig(w)>>)
    /\ Goto(w, "run_end")
    /\ UNCHANGED <<fs, current_model, cache, gui, started, loc, trace>>

-----------------------------------------------------------------------------
(* Worker.run *)

\* what the function of worker w returned: do_translate returns the output
\* path, or None after an exception; the other functions return None
FnResult(l) ==
    IF l.kind = "translate" /\ l.failed = "none" THEN l.output ELSE NoPath

\* Worker.run emitting success whatever the function returned
WorkerRunSignalsAlways(w, result) ==
    <<SuccessSig(w, result), FinishedSig(w)>>

\* Worker.run, lines 38-41: if result: success.emit(..); finished.emit()
WorkerRunSignals(w, result) ==
    (IF result # NoPath THEN <<SuccessSig(w, result)>> ELSE << >>)
        \o <<FinishedSig(w)>>

WorkerRun(w) ==
    /\ pc[w] = "run_end"
    /\ Emit(w, WorkerRunSignals(w, FnResult(loc[w])))
    /\ Goto(w, "returned")
    /\ UNCHANGED <<fs, current_model, cache, gui, started, loc, trace>>

WorkerStep(w) ==
    \/ DoProcessBegin(w)
    \/ create_subtitles(w)
    \/ burn_subtitles(w)
    \/ DoProcessDone(w)
    \/ DoProcessExcept(w)
    \/ DoBurnBegin(w)
    \/ DoBurnDone(w)
    \/ DoBurnExcept(w)
    \/ DoTranslateBegin(w)
    \/ DoTranslate(w)
    \/ DoTranslateExcept(w)
    \/ DoDownloadBegin(w)
    \/ DlCheck(w)
    \/ DlRelease(w)
    \/ DlLoad(w)
    \/ DoDownloadDone(w)
    \/ DoDownloadExcept(w)
    \/ WorkerRun(w)

-----------------------------------------------------------------------------
(* SubtitleGUI: the slots run in the GUI thread *)

Idle(w) == pc[w] = "idle"
AllIdle == \A w \in Workers : Idle(w)

\* self.threadpool.start(worker): the worker runs in a free thread
Start(w, kind, begin) ==
    /\ Idle(w)
    /\ \A v \in Workers : v < w => ~Idle(v)
    /\ started < MaxRuns
    /\ started' = started + 1
    /\ pc' = [pc EXCEPT ![w] = begin]
    /\ loc' = [loc EXCEPT ![w] =
                  [NoLoc EXCEPT !.kind = kind, !.video = VideoPath,
                                !.srt = srt_path, !.model = model_combo,
                                !.prior = IF Exists(fs, srt_path)
                                          THEN fs[srt_path] ELSE NoBackup]]

\* SubtitleGUI.download_model, lines 100-111
GuiDownloadModel(w) ==
    /\ Start(w, "download", "d_begin")
    /\ download_button' = FALSE
    /\ process_button' = FALSE
    /\ progress_bar' = 0

\* SubtitleGUI.burn_subtitles, lines 200-210
GuiBurnSubtitles(w) ==
    /\ Start(w, "burn", "b_begin")
    /\ process_button' = FALSE
    /\ progress_bar' = 0
    /\ UNCHANGED download_button

\* SubtitleGUI.start_processing, lines 308-321
GuiStartProcess(w) ==
    /\ Start(w, "process", "p_begin")
    /\ process_button' = FALSE
    /\ progress_bar' = 0
    /\ UNCHANGED download_button

\* the process button is clicked: SubtitleGUI.start_processing
ClickProcess ==
    /\ process_button
    /\ \E w \in Workers :
         IF model_combo \notin cache
         THEN \* "Download it now?" Yes
              GuiDownloadModel(w)
         ELSE IF Exists(fs, srt_path)
         THEN \* "Use existing file?" Yes / No
              GuiBurnSubtitles(w) \/ GuiStartProcess(w)
         ELSE GuiStartProcess(w)
    /\ UNCHANGED <<fs, current_model, cache, model_combo, srt_path,
                   uppercase_option, word_by_word_option, sigq, trace, sent>>

\* the download button is clicked: SubtitleGUI.download_model
ClickDownload ==
    /\ download_button
    /\ \E w \in Workers : GuiDownloadModel(w)
    /\ UNCHANGED <<fs, current_model, cache, model_combo, srt_path,
                   uppercase_option, word_by_word_option, sigq, trace, sent>>

\* the translate button is clicked: SubtitleGUI.translate_srt
ClickTranslate ==
    /\ IF Exists(fs, srt_path)
       THEN /\ \E w \in Workers : Start(w, "translate", "t_begin")
            /\ progress_bar' = 0
            /\ UNCHANGED <<process_button, download_button>>
       ELSE \* _show_error("Selected SRT file does not exist")
            /\ process_button' = TRUE
            /\ download_button' = TRUE
            /\ UNCHANGED <<progress_bar, pc, loc, started>>
    /\ UNCHANGED <<fs, current_model, cache, model_combo, srt_path,
                   uppercase_option, word_by_word_option, sigq, trace, sent>>

\* model_combo.currentIndexChanged -> _update_ui
ChangeModel ==
    /\ \E m \in Models \ {model_combo} : model_combo' = m
    /\ process_button' = TRUE
    /\ download_button' = TRUE
    /\ UNCHANGED <<fs, current_model, cache, progress_bar, srt_path,
                   uppercase_option, word_by_word_option, pc, loc, sigq,
                   trace, sent, started>>

\* the value the slot connected to `finished` gives the progress bar
FinishedProgress(kind, bar) ==
    CASE kind = "process"   -> 100
      [] kind = "translate" -> 100
      [] kind = "burn"      -> 0
      [] OTHER              -> bar

\* the GUI thread handles the oldest queued signal
Deliver ==
    /\ sigq # << >>
    /\ LET s == Head(sigq)
           kind == loc[s.w].kind
       IN  /\ sigq' = Tail(sigq)
           /\ CASE s.sig = "progress" ->
                    \* _update_progress
                    /\ progress_bar' = s.val
                    /\ UNCHANGED <<process_button, download_button, srt_path,
                                   pc, loc, trace, sent>>
                [] s.sig = "error" ->
                    \* _show_error
                    /\ process_button' = TRUE
                    /\ download_button' = TRUE
                    /\ UNCHANGED <<progress_bar, srt_path, pc, loc, trace, sent>>
                [] s.sig = "success" /\ kind # "translate" ->
                    \* _show_success
                    /\ process_button' = TRUE
                    /\ download_button' = TRUE
                    /\ UNCHANGED <<progress_bar, srt_path, pc, loc, trace, sent>>
                [] s.sig = "success" /\ kind = "translate" ->
                    \* _handle_translation_complete
                    IF Exists(fs, s.path)
                    THEN /\ \/ Len(s.path) <= MaxPathLen /\ srt_path' = s.path
                            \/ UNCHANGED srt_path
                         /\ UNCHANGED <<process_button, download_button,
                                        progress_bar, pc, loc, trace, sent>>
                    ELSE /\ process_button' = TRUE
                         /\ download_button' = TRUE
                         /\ UNCHANGED <<progress_bar, srt_path, pc, loc,
                                        trace, sent>>
                [] s.sig = "finished" ->
                    \* _update_ui, or the lambda calling _update_progress;
                    \* the worker is done with
                    /\ progress_bar' = FinishedProgress(kind, progress_bar)
                    /\ IF kind = "download"
                       THEN process_button' = TRUE /\ download_button' = TRUE
                       ELSE UNCHANGED <<process_button, download_button>>
                    /\ pc' = [pc EXCEPT ![s.w] = "idle"]
                    /\ loc' = [loc EXCEPT ![s.w] = NoLoc]
                    /\ trace' = [trace EXCEPT ![s.w] = << >>]
                    /\ sent' = [sent EXCEPT ![s.w] = NoSent]
                    /\ UNCHANGED srt_path
    /\ UNCHANGED <<fs, current_model, cache, model_combo, uppercase_option,
                   word_by_word_option, started>>

-----------------------------------------------------------------------------
(* Specifications *)

OldSrt == << <<"1">>,
             <<format_timestamp(0), " ", "-->", " ", format_timestamp(1000)>>,
             <<"old">> >>

\* after SubtitleGUI.__init__, a video selected; the subtitle file may exist
Init ==
    /\ fs \in { (VideoPath :> << <<"video">> >>),
                (VideoPath :> << <<"video">> >>) @@ (DefaultSrtPath :> OldSrt) }
    /\ current_model = None
    /\ cache \in { {}, {DefaultModel} }
    /\ process_button = TRUE
    /\ download_button = TRUE
    /\ progress_bar = 0
    /\ model_combo = DefaultModel
    /\ srt_path = DefaultSrtPath
    /\ uppercase_option \in BOOLEAN
    /\ word_by_word_option \in BOOLEAN
    /\ pc = [w \in Workers |-> "idle"]
    /\ loc = [w \in Workers |-> NoLoc]
    /\ sigq = << >>
    /\ trace = [w \in Workers |-> << >>]
    /\ sent = [w \in Workers |-> NoSent]
    /\ started = 0
    /\ call = NoCall
    /\ ret = NoRet

\* one run at a time: the user acts when no worker is in flight
Next ==
    \/ AllIdle /\ ClickProcess /\ UNCHANGED <<call, ret>>
    \/ AllIdle /\ ClickDownload /\ UNCHANGED <<call, ret>>
    \/ AllIdle /\ ClickTranslate /\ UNCHANGED <<call, ret>>
    \/ AllIdle /\ ChangeModel /\ UNCHANGED <<call, ret>>
    \/ \E w \in Workers : WorkerStep(w) /\ UNCHANGED <<call, ret>>
    \/ Deliver /\ UNCHANGED <<call, ret>>

Spec == Init /\ [][Next]_vars

\* the GUI as it is: the user acts at any time
NextGui ==
    \/ ClickProcess /\ UNCHANGED <<call, ret>>
    \/ ClickDownload /\ UNCHANGED <<call, ret>>
    \/ ClickTranslate /\ UNCHANGED <<call, ret>>
    \/ ChangeModel /\ UNCHANGED <<call, ret>>
    \/ \E w \in Workers : WorkerStep(w) /\ UNCHANGED <<call, ret>>
    \/ Deliver /\ UNCHANGED <<call, ret>>

\* the GUI with the default model downloaded and no subtitle file yet
InitGui ==
    /\ Init
    /\ cache = {DefaultModel}
    /\ ~Exists(fs, srt_path)
    /\ uppercase_option
    /\ ~word_by_word_option

SpecGui == InitGui /\ [][NextGui]_vars

\* a file of the user's, not made by any run
OwnFile == << <<"own">> >>

\* as Init, with files of the user's at the paths the runs use for their
\* temp audio and their transformed subtitles
InitOwn ==
    /\ fs = WriteFile(WriteFile((VideoPath :> << <<"video">> >>),
                                AudioPath(VideoPath), OwnFile),
                      ModifiedPath(DefaultSrtPath), OwnFile)
    /\ current_model = None
    /\ cache \in { {}, {DefaultModel} }
    /\ process_button = TRUE
    /\ download_button = TRUE
    /\ progress_bar = 0
    /\ model_combo = DefaultModel
    /\ srt_path = DefaultSrtPath
    /\ uppercase_option \in BOOLEAN
    /\ word_by_word_option \in BOOLEAN
    /\ pc = [w \in Workers |-> "idle"]
    /\ loc = [w \in Workers |-> NoLoc]
    /\ sigq = << >>
    /\ trace = [w \in Workers |-> << >>]
    /\ sent = [w \in Workers |-> NoSent]
    /\ started = 0
    /\ call = NoCall
    /\ ret = NoRet

SpecOwn == InitOwn /\ [][Next]_vars

-----------------------------------------------------------------------------
(* The functions of the processor called on their own, one call a behaviour *)

\* durations in milliseconds, below and above one day
Durations ==
    {0, 1, 999, 1000, 1500, 3000, 59999, 60000, 3599999, 3600000, 3725400,
     86399999, 86400000, 90061001, 360000000}

\* transcription results: none, the two segments "Hello" and "world", and
\* three segments with white space around the text or nothing but white space
FnSegmentLists ==
    { << >>,
      << [start |-> 0,    end |-> 1500, text |-> <<"Hello">>],
         [start |-> 1500, end |-> 3000, text |-> <<"world">>] >>,
      Speech,
      << [start |-> 0,    end |-> 1000, text |-> <<" ", "big", " ", "world", " ">>],
         [start |-> 1000, end |-> 2000, text |-> <<" ">>],
         [start |-> 2000, end |-> 90061001, text |-> <<"bye">>] >> }

TimestampLine(start, end) ==
    <<format_timestamp(start), " ", "-->", " ", format_timestamp(end)>>

\* well-formed entries: an index line, a timestamp line and one or more
\* text lines that neither start nor end with white space
FnEntries ==
    << [number |-> <<"1">>, timestamp |-> TimestampLine(0, 1000),
        text |-> << <<"Hello">> >>],
       [number |-> <<"2">>, timestamp |-> TimestampLine(1000, 2000),
        text |-> << <<"big">>, <<"world">> >>],
       [number |-> <<"3">>, timestamp |-> TimestampLine(2000, 3000),
        text |-> << <<"bye", " ", "old">>, <<"Hello">>, <<"world">> >>] >>

FnEntryLists ==
    { SubSeq(FnEntries, 1, n) : n \in 0..Len(FnEntries) }
        \cup { SubSeq(FnEntries, 2, 3) }

\* the lines of a subtitle file: blocks separated by one blank line
RECURSIVE RenderDoc(_)
RenderDoc(entries) ==
    IF entries = << >> THEN << >>
    ELSE LET e == Head(entries)
         IN  <<e.number, e.timestamp>> \o e.text
             \o (IF Len(entries) > 1 THEN << << >> >> ELSE << >>)
             \o RenderDoc(Tail(entries))

\* the files: as rendered, or with a blank line at the end
FnDocuments ==
    { RenderDoc(e) : e \in FnEntryLists }
        \cup { RenderDoc(e) \o << << >> >> : e \in FnEntryLists }

\* subtitle paths: the default one, outputs of earlier calls, no extension
FnPaths ==
    { DefaultSrtPath, ModifiedPath(DefaultSrtPath),
      TranslatedPath(DefaultSrtPath, "it"), <<"v">> }

Backgrounds == {"none", "black", "white", "gray", "None", "GRAY", "blue"}
Positions == {"bottom", "top center", "Top Center", "top", "middle", ""}
FontColors == {"white", "yellow"}
FontOutlines == {"black", "none"}

\* colour names: those of the map in either letter case, and others
ColorNames ==
    {"white", "yellow", "black", "green", "cyan", "gray", "none",
     "White", "YELLOW", "Black", "Green", "cYaN", "GRAY", "None",
     "mauve", "Mauve", "blue", ""}

Calls ==
    { [NoCall EXCEPT !.fn = "format_timestamp", !.ms = t] : t \in Durations }
    \cup { [NoCall EXCEPT !.fn = "convert_color_to_hex", !.font_color = c] :
             c \in ColorNames }
    \cup { [NoCall EXCEPT !.fn = "write_srt", !.path = DefaultSrtPath,
                          !.segments = g] : g \in FnSegmentLists }
    \cup { [NoCall EXCEPT !.fn = "write_srt_translate", !.path = DefaultSrtPath,
                          !.segments = g, !.lang = l] :
             g \in FnSegmentLists, l \in Langs }
    \cup { [NoCall EXCEPT !.fn = "modify_subtitle_file", !.path = p,
                          !.content = d, !.uppercase = u, !.word_by_word = x] :
             p \in FnPaths, d \in {RenderDoc(FnEntries), << >>},
             u \in BOOLEAN, x \in BOOLEAN }
    \cup { [NoCall EXCEPT !.fn = "translate_subtitles", !.path = p,
                          !.content = d, !.lang = l, !.fails = k,
                          !.existing = x] :
             p \in FnPaths, d \in FnDocuments, l \in Langs,
             k \in 0..Len(FnEntries), x \in BOOLEAN }
    \cup { [NoCall EXCEPT !.fn = "compile_style", !.font_color = c,
                          !.font_outline = o, !.background_color = b,
                          !.subtitle_position = q] :
             c \in FontColors, o \in FontOutlines, b \in Backgrounds,
             q \in Positions }

NoFiles == [q \in {} |-> << >>]

\* the files there are when the call c is made
FnFiles(c) ==
    IF c.fn \in {"modify_subtitle_file", "translate_subtitles"}
    THEN LET f == WriteFile(NoFiles, c.path, c.content)
         IN  IF c.existing
             THEN WriteFile(f, TranslatedPath(c.path, c.lang), OldSrt)
             ELSE f
    ELSE NoFiles

InitFn ==
    /\ call \in Calls
    /\ ret = NoRet
    /\ fs = FnFiles(call)
    /\ current_model = None
    /\ cache = {}
    /\ process_button = TRUE
    /\ download_button = TRUE
    /\ progress_bar = 0
    /\ model_combo = DefaultModel
    /\ srt_path = DefaultSrtPath
    /\ uppercase_option = FALSE
    /\ word_by_word_option = FALSE
    /\ pc = [w \in Workers |-> "idle"]
    /\ loc = [w \in Workers |-> NoLoc]
    /\ sigq = << >>
    /\ trace = [w \in Workers |-> << >>]
    /\ sent = [w \in Workers |-> NoSent]
    /\ started = 0

\* what a call leaves alone
idle == <<current_model, cache, gui, pc, loc, sigq, trace, sent, started, call>>

Called(name) == call.fn = name /\ ~ret.done

\* format_timestamp(seconds)
CallFormatTimestamp ==
    /\ Called("format_timestamp")
    /\ ret' = [NoRet EXCEPT !.done = TRUE,
                            !.text = format_timestamp(call.ms)]
    /\ UNCHANGED <<fs, idle>>

\* create_subtitles, lines 163-176: the document is built and written
\* (the first of the two calls of "write_srt_translate")
CallWriteSrt ==
    /\ Called("write_srt") \/ Called("write_srt_translate")
    /\ ret.path = NoPath
    /\ fs' = WriteFile(fs, call.path, SrtContent(call.segments))
    /\ ret' = [NoRet EXCEPT !.done = (call.fn = "write_srt"),
                            !.path = call.path]
    /\ UNCHANGED idle

\* translate_subtitles(srt_path, ...) on the file create_subtitles wrote
CallTranslateWritten ==
    /\ Called("write_srt_translate")
    /\ ret.path = call.path
    /\ LET r == translate_subtitles(fs, call.path, call.lang, call.fails)
       IN  /\ fs' = r.fs
           /\ ret' = [NoRet EXCEPT !.done = TRUE, !.raised = r.raised,
                                   !.path = r.path]
    /\ UNCHANGED idle

\* modify_subtitle_file(input_srt, uppercase, word_by_word)
CallModifySubtitleFile ==
    /\ Called("modify_subtitle_file")
    /\ LET r == modify_subtitle_file(fs, call.path, call.uppercase,
                                     call.word_by_word)
       IN  /\ fs' = r.fs
           /\ ret' = [NoRet EXCEPT !.done = TRUE, !.path = r.path]
    /\ UNCHANGED idle

\* translate_subtitles(input_srt, from_lang, to_lang)
CallTranslateSubtitles ==
    /\ Called("translate_subtitles")
    /\ LET r == translate_subtitles(fs, call.path, call.lang, call.fails)
       IN  /\ fs' = r.fs
           /\ ret' = [NoRet EXCEPT !.done = TRUE, !.raised = r.raised,
                                   !.path = IF r.raised THEN NoPath
                                            ELSE r.path]
    /\ UNCHANGED idle

\* burn_subtitles, lines 212-244, with the font and margin of the settings
CallCompileStyle ==
    /\ Called("compile_style")
    /\ ret' = [NoRet EXCEPT !.done = TRUE,
                            !.style = CompileStyle("24", "Arial",
                                call.font_color, call.font_outline, "200",
                                call.background_color,
                                call.subtitle_position)]
    /\ UNCHANGED <<fs, idle>>

\* convert_color_to_hex(color_name)
CallConvertColorToHex ==
    /\ Called("convert_color_to_hex")
    /\ ret' = [NoRet EXCEPT !.done = TRUE,
                            !.text = convert_color_to_hex(call.font_color)]
    /\ UNCHANGED <<fs, idle>>

NextFn ==
    \/ CallFormatTimestamp
    \/ CallConvertColorToHex
    \/ CallWriteSrt
    \/ CallTranslateWritten
    \/ CallModifySubtitleFile
    \/ CallTranslateSubtitles
    \/ CallCompileStyle

SpecFn == InitFn /\ [][NextFn]_vars

-----------------------------------------------------------------------------
(* Properties *)

\* the work items worker w has done or attempted
Ops(w) == { trace[w][k].op : k \in 1..Len(trace[w]) }

\* the paths worker w removed (or tried to) with the work item op
PathsOf(w, op) ==
    { trace[w][k].path : k \in { j \in 1..Len(trace[w]) : trace[w][j].op = op } }

Flags == NeedsModify(uppercase_option, word_by_word_option)

\* C1: once create_subtitles has failed in audio extraction, in transcription
\* or in writing the subtitle file, the temp audio file does not exist.
C1_TempAudioAbsentAfterFailure ==
    \A w \in Workers :
        /\ loc[w].kind = "process"
        /\ loc[w].failed \in {"extract_audio", "transcribe", "write_srt"}
        => ~Exists(fs, AudioPath(loc[w].video))

\* C2: after a create-and-burn run failed in the burn engine call, the temp
\* audio file is absent, the subtitle file holds what the run wrote and the
\* .bak sibling, if the run made one, holds what was copied to it.
C2_BurnFailureKeepsSubtitles ==
    \A w \in Workers :
        loc[w].kind = "process" /\ loc[w].failed = "burn"
        => /\ ~Exists(fs, AudioPath(loc[w].video))
           /\ Exists(fs, loc[w].srt)
           /\ fs[loc[w].srt] = SrtContent(loc[w].segments)
           /\ loc[w].backup # NoBackup
              => /\ Exists(fs, BackupPath(loc[w].srt))
                 /\ fs[BackupPath(loc[w].srt)] = loc[w].backup

C2_Witness ==
    \E w \in Workers :
        /\ loc[w].kind = "process" /\ loc[w].failed = "burn"
        /\ loc[w].backup # NoBackup
        /\ loc[w].segments # << >>
        /\ "modify" \in Ops(w)

\* burn_subtitles has returned True in worker w
BurnReturned(w) ==
    /\ loc[w].kind \in {"process", "burn"}
    /\ loc[w].failed = "none"
    /\ pc[w] \in {"p_done", "b_done", "run_end", "returned"}

\* C3: after burn_subtitles ended successfully, what it removed is the
\* _modified.srt file if uppercase or word_by_word was set and nothing
\* otherwise; that file was produced exactly when a flag was set, the source
\* subtitle file is still there, and without a flag the filter names the
\* original subtitle path.
C3_BurnRemovesOnlyItsArtifact ==
    \A w \in Workers :
        BurnReturned(w)
        => /\ PathsOf(w, "remove_modified")
                = (IF Flags THEN {ModifiedPath(loc[w].srt)} ELSE {})
           /\ Flags <=> "modify" \in Ops(w)
           /\ Flags => ~Exists(fs, ModifiedPath(loc[w].srt))
           /\ Exists(fs, loc[w].srt)
           /\ ~Flags => loc[w].modified_srt_path = loc[w].srt
           /\ Flags => loc[w].modified_srt_path = ModifiedPath(loc[w].srt)

C3_Witness ==
    \E w \in Workers :
        BurnReturned(w) /\ Flags /\ "remove_modified" \in Ops(w)

\* C4: once burn_subtitles has failed in the burn engine call after the
\* transformed subtitle file was produced, the _modified.srt file does not
\* exist.
C4_ModifiedAbsentAfterBurnFailure ==
    \A w \in Workers :
        /\ loc[w].failed = "burn"
        /\ "modify" \in Ops(w)
        => ~Exists(fs, ModifiedPath(loc[w].srt))

\* the stage a work item belongs to, as the stages are listed:
\* ExtractingAudio, Transcribing (with the load of the engine handle),
\* WritingSubtitles (with the .bak backup), TransformingText,
\* CompilingStyle, Burning, CleaningUp
ListedStage(op) ==
    CASE op = "extract_audio"   -> 1
      [] op = "load_model"      -> 2
      [] op = "transcribe"      -> 2
      [] op = "backup"          -> 3
      [] op = "write_srt"       -> 3
      [] op = "modify"          -> 4
      [] op = "compile_style"   -> 5
      [] op = "burn"            -> 6
      [] op = "remove_audio"    -> 7
      [] op = "remove_modified" -> 7
      [] OTHER                  -> 0

\* the place of a work item in the order the run does them
WorkOrder(op) ==
    CASE op = "load_model"      -> 1
      [] op = "backup"          -> 2
      [] op = "extract_audio"   -> 3
      [] op = "transcribe"      -> 4
      [] op = "write_srt"       -> 5
      [] op = "remove_audio"    -> 6
      [] op = "modify"          -> 7
      [] op = "compile_style"   -> 8
      [] op = "burn"            -> 9
      [] op = "remove_modified" -> 10
      [] OTHER                  -> 0

\* C5 as stated: in a create-and-burn run the work items follow the listed
\* stage order (no item of a later stage before an item of an earlier stage),
\* and translation is no part of the run.
C5_ListedStageOrder ==
    \A w \in Workers :
        loc[w].kind = "process"
        => /\ \A i, j \in 1..Len(trace[w]) :
                i < j => ListedStage(trace[w][i].op) <= ListedStage(trace[w][j].op)
           /\ "translate" \notin Ops(w)

\* C5 amended: in a create-and-burn run the work items are done in the order
\* load of the engine handle (when none is cached), .bak backup (when the
\* subtitle file exists), audio extraction, transcription, writing the
\* subtitle file, removal of the temp audio file, text transformation (when a
\* flag is set), style compilation, burning, removal of the transformed file;
\* each at most once, and translation is no part of the run.
C5_WorkOrder ==
    \A w \in Workers :
        loc[w].kind = "process"
        => /\ \A i, j \in 1..Len(trace[w]) :
                i < j => WorkOrder(trace[w][i].op) < WorkOrder(trace[w][j].op)
           /\ \A i \in 1..Len(trace[w]) : WorkOrder(trace[w][i].op) > 0
           /\ "translate" \notin Ops(w)

C5_Witness ==
    \E w \in Workers :
        /\ loc[w].kind = "process"
        /\ pc[w] = "returned"
        /\ loc[w].failed = "none"
        /\ Ops(w) = {"load_model", "backup", "extract_audio", "transcribe",
                     "write_srt", "remove_audio", "modify", "compile_style",
                     "burn", "remove_modified"}

\* C6: the engine handle a create_subtitles run calls transcribe on was
\* loaded for the model name the run requested.
C6_HandleIsForRequestedModel ==
    \A w \in Workers :
        pc[w] = "cs_transcribing" => loc[w].handle = loc[w].model

\* worker w is between its check (or load) of the cached handle and the
\* return of its transcribe call
HoldsHandle(w) ==
    pc[w] \in {"cs_backup", "cs_extract", "cs_transcribe", "cs_transcribing"}

\* C7: the cached engine handle is not released or replaced while a run is
\* between checking or loading it and the return of its transcribe call.
C7_HandleStableWhileInUse ==
    [][ \A w \in Workers :
          HoldsHandle(w) /\ HoldsHandle(w)' => current_model' = current_model
      ]_vars

\* worker w has extracted its temp audio file and not yet removed it
UsesAudio(w) ==
    pc[w] \in {"cs_transcribe", "cs_transcribing", "cs_write", "cs_remove"}

\* worker w has produced its transformed subtitle file and not yet removed it
UsesModified(w) ==
    /\ pc[w] \in {"bs_style", "bs_burn", "bs_cleanup"}
    /\ loc[w].modified_srt_path # loc[w].srt

\* C8: two runs that overlap in time never use the same temp audio path or
\* the same transformed subtitle path at the same time.
C8_TempFilesNotShared ==
    \A v, w \in Workers :
        v # w
        => /\ ~(UsesAudio(v) /\ UsesAudio(w)
                /\ loc[v].audio_path = loc[w].audio_path)
           /\ ~(UsesModified(v) /\ UsesModified(w)
                /\ loc[v].modified_srt_path = loc[w].modified_srt_path)

\* C9: within a run, from its first progress event to the event delivered
\* when the worker finishes, the percent shown never decreases and stays
\* within 0..100.
C9_ProgressNeverDecreases ==
    [][ started' = started
          => progress_bar' >= progress_bar /\ progress_bar' \in 0..100
      ]_vars

\* C10: a run that failed in a stage made no call after the failing one and
\* emits one error and no success; a run that did not fail emits one success
\* and no error.
C10_OneOutcomeEvent ==
    \A w \in Workers :
        /\ sent[w].error <= 1 /\ sent[w].success <= 1
        /\ loc[w].failed # "none"
           => /\ trace[w] # << >>
              /\ trace[w][Len(trace[w])].op = loc[w].failed
              /\ sent[w].success = 0
        /\ loc[w].failed = "none" => sent[w].error = 0
        /\ pc[w] = "returned"
           => IF loc[w].failed # "none"
              THEN sent[w] = [error |-> 1, success |-> 0]
              ELSE sent[w] = [error |-> 0, success |-> 1]

C10_Witness ==
    \E w \in Workers :
        /\ pc[w] = "returned"
        /\ loc[w].kind = "process"
        /\ loc[w].failed = "transcribe"
        /\ sent[w].error = 1

\* C11: in a create_subtitles run the content the subtitle file had when the
\* run started is still in the subtitle file or in its .bak sibling, and a
\* run that failed before the write left the subtitle file as it was.
C11_PriorContentKept ==
    \A w \in Workers :
        loc[w].kind = "process" /\ loc[w].prior # NoBackup
        => /\ \/ /\ Exists(fs, loc[w].srt)
                 /\ fs[loc[w].srt] = loc[w].prior
              \/ /\ Exists(fs, BackupPath(loc[w].srt))
                 /\ fs[BackupPath(loc[w].srt)] = loc[w].prior
           /\ loc[w].failed \in {"load_model", "backup", "extract_audio",
                                "transcribe"}
              => /\ Exists(fs, loc[w].srt)
                 /\ fs[loc[w].srt] = loc[w].prior

C11_Witness ==
    \E w \in Workers :
        /\ loc[w].kind = "process" /\ loc[w].prior # NoBackup
        /\ "write_srt" \in Ops(w)
        /\ fs[loc[w].srt] # loc[w].prior
        /\ fs[BackupPath(loc[w].srt)] = loc[w].prior

\* C12: a create_subtitles run is never aborted by the failure of the copy
\* of the existing subtitle file to its .bak sibling.
C12_BackupFailureNotFatal ==
    \A w \in Workers : loc[w].failed # "backup"

\* the call made was of the function `name` and it has ended
Returned(name) == call.fn = name /\ ret.done

\* C13: translate_srt on a file of N well-formed entries, every translate
\* call succeeding, writes N blocks in the order of the input, separated by
\* one blank line; block i has the index line and the timestamp line of
\* entry i and, as its text, the engine's answer for the text lines of
\* entry i joined by single spaces.
C13_TranslationKeepsStructure ==
    \A e \in FnEntryLists :
        /\ Returned("translate_subtitles") /\ ~ret.raised
        /\ call.content \in {RenderDoc(e), RenderDoc(e) \o << << >> >>}
        => LET out == fs[ret.path]
               N   == Len(e)
           IN  /\ Len(out) = IF N = 0 THEN 0 ELSE 4 * N - 1
               /\ \A i \in 1..N :
                     /\ out[4 * (i - 1) + 1] = e[i].number
                     /\ out[4 * (i - 1) + 2] = e[i].timestamp
                     /\ out[4 * (i - 1) + 3]
                          = TranslateText(JoinLines(e[i].text), call.lang)
               /\ \A i \in 1..(N - 1) : out[4 * i] = << >>

C13_Witness ==
    /\ Returned("translate_subtitles") /\ ~ret.raised
    /\ call.content = RenderDoc(FnEntries)
    /\ Len(fs[ret.path]) > Len(FnEntries)

\* C14: when the translate call fails for an entry of the input,
\* translate_subtitles raises and the files are what they were before the
\* call: no output file is created or changed, the input file is unchanged.
C14_NoPartialOutput ==
    \A e \in FnEntryLists :
        /\ Returned("translate_subtitles")
        /\ call.content \in {RenderDoc(e), RenderDoc(e) \o << << >> >>}
        /\ call.fails \in 1..Len(e)
        => /\ ret.raised
           /\ fs = FnFiles(call)

C14_Witness ==
    /\ Returned("translate_subtitles") /\ ret.raised
    /\ call.content = RenderDoc(FnEntries)
    /\ call.fails \in 2..Len(FnEntries)
    /\ call.existing

\* C15: translate_subtitles writes to the path made of the stem of the input
\* path and '_<language>.srt'; that path is not the input path and the
\* input file holds what it held before the call, also when the input is a
\* translated file.
C15_TranslationOutputPath ==
    Returned("translate_subtitles") /\ ~ret.raised
    => /\ ret.path = SplitextRoot(call.path) \o <<"_" \o call.lang, ".srt">>
       /\ ret.path # call.path
       /\ Exists(fs, ret.path)
       /\ Exists(fs, call.path)
       /\ fs[call.path] = call.content

C15_Witness ==
    /\ Returned("translate_subtitles") /\ ~ret.raised
    /\ call.path = <<"v", "_it", ".srt">>
    /\ call.content = RenderDoc(FnEntries)
    /\ ret.path = <<"v", "_it", "_it", ".srt">>

\* C16: modify_subtitle_file writes to a path that is not the source path
\* and the source file holds what it held before the call, also when the
\* source is a _modified.srt file.
C16_ModifyKeepsSource ==
    Returned("modify_subtitle_file")
    => /\ ret.path # call.path
       /\ Exists(fs, ret.path)
       /\ Exists(fs, call.path)
       /\ fs[call.path] = call.content

C16_Witness ==
    /\ Returned("modify_subtitle_file")
    /\ call.path = <<"v", "_modified", ".srt">>
    /\ call.uppercase
    /\ call.content # << >>
    /\ fs[ret.path] # call.content

\* the text without the white space at its ends
Trimmed(text) ==
    LET inner == {k \in 1..Len(text) : text[k] # " "}
    IN  IF inner = {} THEN << >>
        ELSE SubSeq(text, CHOOSE k \in inner : \A j \in inner : k <= j,
                          CHOOSE k \in inner : \A j \in inner : k >= j)

\* C17: for N segments create_subtitles writes N blocks in the order of the
\* input, block i being the line i, the line '<start> --> <end>' and the
\* text without the white space at its ends, with one blank line between
\* consecutive blocks; for no segment the file is empty; for the segments
\* (0.0, 1.5, Hello), (1.5, 3.0, world) the blocks are
\* 1 / 00:00:00,000 --> 00:00:01,500 / Hello and
\* 2 / 00:00:01,500 --> 00:00:03,000 / world.
C17_SegmentsToDocument ==
    Returned("write_srt")
    => LET out  == fs[call.path]
           segs == call.segments
           N    == Len(segs)
       IN  /\ Len(out) = IF N = 0 THEN 0 ELSE 4 * N - 1
           /\ \A i \in 1..N :
                 /\ out[4 * (i - 1) + 1] = <<ToString(i)>>
                 /\ out[4 * (i - 1) + 2]
                      = TimestampLine(segs[i].start, segs[i].end)
                 /\ out[4 * (i - 1) + 3] = Trimmed(segs[i].text)
           /\ \A i \in 1..(N - 1) : out[4 * i] = << >>
           /\ segs = << [start |-> 0, end |-> 1500, text |-> <<"Hello">>],
                        [start |-> 1500, end |-> 3000, text |-> <<"world">>] >>
              => out = << <<"1">>,
                          <<"00:00:00,000", " ", "-->", " ", "00:00:01,500">>,
                          <<"Hello">>,
                          << >>,
                          <<"2">>,
                          <<"00:00:01,500", " ", "-->", " ", "00:00:03,000">>,
                          <<"world">> >>

C17_Witness ==
    /\ Returned("write_srt")
    /\ Len(call.segments) = 2
    /\ fs[call.path][7] = <<"world">>

\* C18: for a duration of t milliseconds format_timestamp gives HH:MM:SS,mmm
\* with HH the whole hours of t, not wrapped at 24, MM and SS within 00..59
\* and mmm the milliseconds left.
C18_HoursNotWrapped ==
    Returned("format_timestamp")
    => ret.text = Pad2(call.ms \div 3600000) \o ":"
                    \o Pad2((call.ms \div 60000) % 60) \o ":"
                    \o Pad2((call.ms \div 1000) % 60) \o ","
                    \o Pad3(call.ms % 1000)

\* the keys of the components of the style returned
StyleKeys == { ret.style[k].key : k \in 1..Len(ret.style) }

\* the style returned has the box border style
HasBoxBorder ==
    \E k \in 1..Len(ret.style) :
        ret.style[k] = [key |-> "BorderStyle", value |-> "3"]

\* C19: the style has a BackColour key exactly when the background is not
\* "none"; then it has BackColour and BorderStyle=3; for "none" it has
\* neither.
C19_BackColourIffBackground ==
    Returned("compile_style")
    => /\ "BackColour" \in StyleKeys <=> call.background_color # "none"
       /\ call.background_color # "none"
          => "BackColour" \in StyleKeys /\ HasBoxBorder
       /\ call.background_color = "none"
          => "BackColour" \notin StyleKeys /\ ~HasBoxBorder

C19_Witness ==
    /\ Returned("compile_style")
    /\ call.background_color = "None"
    /\ HasBoxBorder

\* C20: the style has one Alignment key; its code is 8 when the position is
\* "top center" and 2 for every other value.
C20_AlignmentCode ==
    Returned("compile_style")
    => /\ Cardinality({k \in 1..Len(ret.style) :
                          ret.style[k].key = "Alignment"}) = 1
       /\ \A k \in 1..Len(ret.style) :
             ret.style[k].key = "Alignment"
             => ret.style[k].value
                  = (IF call.subtitle_position = "top center"
                     THEN "8" ELSE "2")

C20_Witness ==
    /\ Returned("compile_style")
    /\ call.subtitle_position = "Top Center"
    /\ \E k \in 1..Len(ret.style) :
          ret.style[k] = [key |-> "Alignment", value |-> "2"]

\* C21: convert_color_to_hex returns for white, yellow, black, green, cyan,
\* gray and none, in any letter case, &HFFFFFF&, &H00FFFF&, &H000000&,
\* &H00FF00&, &HFFFF00&, &H808080& and the empty string, and the white code
\* for every other name.
C21_ColorMapTotal ==
    Returned("convert_color_to_hex")
    => LET c == call.font_color
       IN  ret.text =
             CASE c \in {"white", "White"}   -> "&HFFFFFF&"
               [] c \in {"yellow", "YELLOW"} -> "&H00FFFF&"
               [] c \in {"black", "Black"}   -> "&H000000&"
               [] c \in {"green", "Green"}   -> "&H00FF00&"
               [] c \in {"cyan", "cYaN"}     -> "&HFFFF00&"
               [] c \in {"gray", "GRAY"}     -> "&H808080&"
               [] c \in {"none", "None"}     -> ""
               [] OTHER                      -> "&HFFFFFF&"

C21_Witness ==
    /\ Returned("convert_color_to_hex")
    /\ call.font_color = "YELLOW"
    /\ ret.text = "&H00FFFF&"

\* C22: after download_model failed, the cached-handle slot of the processor
\* holds the previous handle or no handle, so that the load-or-reuse step of
\* a following create_subtitles run can read it.
C22_SlotUsableAfterFailedDownload ==
    \A w \in Workers :
        loc[w].kind = "download" /\ loc[w].failed # "none"
        => current_model \in Models \cup {None}

\* C23: translate_srt splits the file create_subtitles wrote into blocks whose
\* first line is the index line and whose second line is the timestamp line
\* of one of the entries written, also when the trimmed text of a segment is
\* empty: every block of the translated file starts with these two lines.
C23_WrittenFileSplitsIntoEntries ==
    Returned("write_srt_translate") /\ ~ret.raised
    => LET out  == fs[ret.path]
           segs == call.segments
       IN  \A j \in 1..((Len(out) + 1) \div 4) :
               \E i \in 1..Len(segs) :
                   /\ out[4 * (j - 1) + 1] = <<ToString(i)>>
                   /\ out[4 * (j - 1) + 2]
                        = TimestampLine(segs[i].start, segs[i].end)

\* worker w runs create-and-burn or burn-only and has emitted neither its
\* success nor its error event
InFlight(w) ==
    /\ loc[w].kind \in {"process", "burn"}
    /\ sent[w] = NoSent

\* C24: while a create-and-burn or burn-only worker has not yet emitted its
\* success or error event the process button is disabled, and at most one
\* such worker is in flight.
C24_ProcessButtonDisabledInFlight ==
    /\ \A w \in Workers : InFlight(w) => ~process_button
    /\ Cardinality({w \in Workers : InFlight(w)}) <= 1

\* C25: the files that were at <video stem>_temp.wav and at
\* <subtitle stem>_modified.srt before any run are still there, with the
\* content they had.
C25_OwnFilesKept ==
    /\ Exists(fs, AudioPath(VideoPath))
    /\ fs[AudioPath(VideoPath)] = OwnFile
    /\ Exists(fs, ModifiedPath(DefaultSrtPath))
    /\ fs[ModifiedPath(DefaultSrtPath)] = OwnFile

====
